---- MODULE Spec2Model ----
(***************************************************************************)
(* ServerConfig (src/components/views/auth/ServerConfig.js): the form that *)
(* holds the user's homeserver / identity-server URLs, debounces blur      *)
(* events per field, and validates the URLs through the auto-discovery     *)
(* collaborator.                                                           *)
(*                                                                         *)
(* Everything runs on one event loop.  Each action below is one task of    *)
(* that loop: an event handler run to its first suspension point, a timer  *)
(* callback, or the continuation of an awaited discovery call (together    *)
(* with the continuation of onSubmit that awaits it).  setState is applied *)
(* at once.  The handlers are callable in any state: render() only sets    *)
(* the `disabled` attribute of the presentation layer.                     *)
(*                                                                         *)
(* The props belong to the owner, who may pass new ones at any time:       *)
(* props.onAfterSubmit is whatever the owner has passed when onSubmit      *)
(* reads it, so it is an input of the task that reads it.                  *)
(*                                                                         *)
(* Besides the component's own state the model keeps three history         *)
(* variables about validation attempts: what the last task did (the        *)
(* attempt it started or ended, with the callbacks it invoked), the        *)
(* outcome of the most recently triggered attempt, and the configuration   *)
(* the owner was last given; and one about the debounce: whether the       *)
(* fields were changed while a timer was pending.                          *)
(***************************************************************************)
EXTENDS Integers, Sequences, FiniteSets, TLC

\* ------------------------------------------------------------------ bounds
\* Number of discovery calls that may be in flight at once.
MaxInFlight == 2
\* Number of timers that may be pending at once.
MaxPending == 2

\* --------------------------------------------------------------- constants
\* The URL strings a field or a configuration may hold.
Urls == {"https://matrix.org", "https://vector.im"}

\* SdkConfig.get()["validated_server_config"]
DefaultConfig ==
    [hsUrl |-> "https://matrix.org", isUrl |-> "https://vector.im", from |-> "SdkConfig"]

\* The ValidatedServerConfig objects the owner may pass as props.serverConfig.
OwnerConfigs == {[hsUrl |-> h, isUrl |-> i, from |-> "owner"] : h \in Urls, i \in Urls}

\* What AutoDiscoveryUtils.validateServerConfigWithStaticUrls resolves to.
DiscoveryResult(hsUrl, isUrl) == [hsUrl |-> hsUrl, isUrl |-> isUrl, from |-> "AutoDiscovery"]

\* The value of e.translatedMessage on a rejection: absent, empty, or a text.
Undefined == "<undefined>"
TranslatedMessages == {Undefined, "", "Bad server"}

\* _t("Unable to validate homeserver/identity server")
GenericMessage == "Unable to validate homeserver/identity server"

\* Return values of validateAndApplyServer that are not a configuration.
Null == [from |-> "null"]
Pending == [from |-> "pending"]
NoConfig == [from |-> "none"]

\* The last task neither started nor ended a validation attempt.
NoAttempt == [status |-> "none"]

VARIABLES
    state,        \* this.state: [busy, errorText, hsUrl, isUrl]
    hsTimeoutId,  \* this._hsTimeoutId (0: undefined)
    isTimeoutId,  \* this._isTimeoutId (0: undefined)
    timeouts,     \* the event loop's pending timers (ids)
    inflight,     \* the discovery calls awaited, oldest first: the arguments of
                  \* each and whether onSubmit awaits the attempt's result
    attempt,      \* history: the validation attempt the last task started or
                  \* ended, if any, and the callbacks invoked for it
    latest,       \* history: the outcome of the most recently triggered attempt
    delivered,    \* history: the last config given to onServerConfigChange since
                  \* the most recently triggered attempt began
    changedSinceBlur  \* history: a field was changed while a debounce timer was
                  \* pending, and only timer callbacks have run since

vars == <<state, hsTimeoutId, isTimeoutId, timeouts, inflight, attempt, latest,
          delivered, changedSinceBlur>>

\* ----------------------------------------------------------------- helpers
\* this.setState(patch)
SetState(s, patch) ==
    [k \in DOMAIN s |-> IF k \in DOMAIN patch THEN patch[k] ELSE s[k]]

\* JavaScript truthiness of e.translatedMessage
Truthy(m) == m \notin {Undefined, ""}

\* The sequence seq without its element i.
Remove(seq, i) == [k \in 1..(Len(seq) - 1) |-> IF k < i THEN seq[k] ELSE seq[k + 1]]

\* Mutant of IsDefaultConfig: the second comparison reads hsUrl for isUrl.
IsDefaultConfigTypo(hsUrl, isUrl) ==
    DefaultConfig.hsUrl = hsUrl /\ DefaultConfig.isUrl = hsUrl

\* line 84: defaultConfig.hsUrl === hsUrl && defaultConfig.isUrl === isUrl
IsDefaultConfig(hsUrl, isUrl) ==
    DefaultConfig.hsUrl = hsUrl /\ DefaultConfig.isUrl = isUrl

\* line 85
FastPathState(s) == SetState(s, [busy |-> FALSE, errorText |-> ""])

\* Mutant of SlowPathState: the error of an earlier attempt is left in place.
SlowPathStateKeepsError(s, hsUrl, isUrl) ==
    SetState(s, [hsUrl |-> hsUrl, isUrl |-> isUrl, busy |-> TRUE])

\* lines 90-95
SlowPathState(s, hsUrl, isUrl) ==
    SetState(s, [hsUrl |-> hsUrl, isUrl |-> isUrl, busy |-> TRUE, errorText |-> ""])

\* Mutant of ResolvedState: the success branch does not reset busy.
ResolvedStateStaysBusy(s) == SetState(s, [errorText |-> ""])

\* line 99
ResolvedState(s) == SetState(s, [busy |-> FALSE, errorText |-> ""])

\* Mutant of FailureMessage: the error's own message is ignored.
FailureMessageGenericOnly(translatedMessage) == GenericMessage

\* lines 104-107
FailureMessage(translatedMessage) ==
    IF Truthy(translatedMessage) THEN translatedMessage ELSE GenericMessage

\* Mutant of RejectedState: the catch block does not reset busy.
RejectedStateStaysBusy(s, translatedMessage) ==
    SetState(s, [errorText |-> FailureMessage(translatedMessage)])

\* lines 108-111
RejectedState(s, translatedMessage) ==
    SetState(s, [busy |-> FALSE, errorText |-> FailureMessage(translatedMessage)])

\* lines 86 and 100: this.props.onServerConfigChange(config)
ConfigChangeCalls(config) ==
    << [fn |-> "onServerConfigChange", arg |-> config] >>

\* Mutant of AfterSubmitCalls: the null check of line 143 is missing.
AfterSubmitCallsUnchecked(result, onAfterSubmit) ==
    IF onAfterSubmit
    THEN << [fn |-> "onAfterSubmit", arg |-> NoConfig] >>
    ELSE << >>

\* lines 143-147: the rest of onSubmit once validateServer() has returned
\* result, the owner having provided onAfterSubmit or not
AfterSubmitCalls(result, onAfterSubmit) ==
    IF result = Null THEN << >>
    ELSE IF onAfterSubmit
         THEN << [fn |-> "onAfterSubmit", arg |-> NoConfig] >>
         ELSE << >>

\* The callbacks run by the caller of validateAndApplyServer after it returned:
\* onSubmit awaits the result (line 142), the timer callback (lines 119, 130)
\* and componentWillReceiveProps (line 71) drop it.
CallerCalls(submit, result, onAfterSubmit) ==
    IF submit THEN AfterSubmitCalls(result, onAfterSubmit) ELSE << >>

\* Mutant of ResolvedCalls: onSubmit goes on before the owner has the config.
ResolvedCallsAfterSubmitFirst(result, submit, onAfterSubmit) ==
    CallerCalls(submit, result, onAfterSubmit) \o ConfigChangeCalls(result)

\* lines 100-101 and the caller: the callbacks of an attempt whose discovery
\* call resolved to result
ResolvedCalls(result, submit, onAfterSubmit) ==
    ConfigChangeCalls(result) \o CallerCalls(submit, result, onAfterSubmit)

\* Mutant of RejectedCalls: the owner is told of the failure.
RejectedCallsNotifyOwner(submit, onAfterSubmit) ==
    ConfigChangeCalls(Null) \o CallerCalls(submit, Null, onAfterSubmit)

\* lines 102-114 and the caller: the callbacks of an attempt whose discovery
\* call rejected; the catch block invokes none and returns null
RejectedCalls(submit, onAfterSubmit) ==
    CallerCalls(submit, Null, onAfterSubmit)

\* What an ended attempt leaves for the user to see.
Outcome(a) == [status |-> a.status, result |-> a.result, message |-> a.message]

\* lines 84-88: the default path of validateAndApplyServer
DefaultPath(hsUrl, isUrl, by, onAfterSubmit) ==
    LET a == [hsUrl |-> hsUrl, isUrl |-> isUrl, by |-> by,
              status |-> "default", result |-> DefaultConfig, message |-> "",
              calls |-> ResolvedCalls(DefaultConfig, by = "onSubmit", onAfterSubmit)]
    IN  /\ state' = FastPathState(state)
        /\ delivered' = DefaultConfig
        /\ attempt' = a
        /\ latest' = Outcome(a)
        /\ inflight' = inflight

\* Mutant of DiscoveryPath: the collaborator is called a second time.
DiscoveryPathCallsTwice(hsUrl, isUrl, by) ==
    LET a == [hsUrl |-> hsUrl, isUrl |-> isUrl, by |-> by,
              status |-> "pending", result |-> Pending, message |-> "",
              calls |-> << >>]
        call == [hsUrl |-> hsUrl, isUrl |-> isUrl, submit |-> (by = "onSubmit")]
    IN  /\ Len(inflight) + 1 < MaxInFlight
        /\ state' = SlowPathState(state, hsUrl, isUrl)
        /\ inflight' = Append(Append(inflight, call), call)
        /\ attempt' = a
        /\ latest' = Outcome(a)
        /\ delivered' = NoConfig

\* lines 90-98: validateAndApplyServer up to its await
DiscoveryPath(hsUrl, isUrl, by) ==
    LET a == [hsUrl |-> hsUrl, isUrl |-> isUrl, by |-> by,
              status |-> "pending", result |-> Pending, message |-> "",
              calls |-> << >>]
    IN  /\ Len(inflight) < MaxInFlight
        /\ state' = SlowPathState(state, hsUrl, isUrl)
        /\ inflight' = Append(inflight, [hsUrl |-> hsUrl, isUrl |-> isUrl,
                                         submit |-> (by = "onSubmit")])
        /\ attempt' = a
        /\ latest' = Outcome(a)
        /\ delivered' = NoConfig

\* lines 81-98: validateAndApplyServer(hsUrl, isUrl), called by `by`
ValidateAndApplyServer(hsUrl, isUrl, by, onAfterSubmit) ==
    IF IsDefaultConfig(hsUrl, isUrl)
    THEN DefaultPath(hsUrl, isUrl, by, onAfterSubmit)
    ELSE DiscoveryPath(hsUrl, isUrl, by)

\* Mutant of ValidateServer: the two fields are passed in the wrong order.
ValidateServerSwapped(by, onAfterSubmit) ==
    ValidateAndApplyServer(state.isUrl, state.hsUrl, by, onAfterSubmit)

\* lines 74-79: validateServer()
ValidateServer(by, onAfterSubmit) ==
    ValidateAndApplyServer(state.hsUrl, state.isUrl, by, onAfterSubmit)

\* Mutant of ClearExisting: the pending timer is not cleared.
ClearExistingNever(existingTimeoutId) == timeouts

\* lines 151-153: clearTimeout(existingTimeoutId) when the handle is set
ClearExisting(existingTimeoutId) ==
    IF existingTimeoutId # 0 THEN timeouts \ {existingTimeoutId} ELSE timeouts

\* The id setTimeout returns (line 154): a positive number that names no
\* pending timer.  Ids are names only, so the least one that neither a pending
\* timer nor a handle of the component holds stands for the event loop's
\* fresh id.
NewTimeoutId ==
    CHOOSE n \in 1..(MaxPending + 3) :
        /\ n \notin timeouts \cup {hsTimeoutId, isTimeoutId}
        /\ \A m \in 1..(n - 1) : m \in timeouts \cup {hsTimeoutId, isTimeoutId}

\* lines 150-155: _waitThenInvoke(existingTimeoutId, fn)
WaitThenInvoke(existingTimeoutId) ==
    /\ Cardinality(ClearExisting(existingTimeoutId)) < MaxPending
    /\ timeouts' = ClearExisting(existingTimeoutId) \cup {NewTimeoutId}

\* Mutant of SameAsEditState: the second comparison reads state.hsUrl.
SameAsEditStateTypo(newProps) ==
    /\ newProps.serverConfig.hsUrl = state.hsUrl
    /\ newProps.serverConfig.isUrl = state.hsUrl

\* lines 68-69
SameAsEditState(newProps) ==
    /\ newProps.serverConfig.hsUrl = state.hsUrl
    /\ newProps.serverConfig.isUrl = state.isUrl

\* -------------------------------------------------------------------- Init
\* lines 56-65: the constructor
Init ==
    /\ \E serverConfig \in OwnerConfigs :
           state = [busy |-> FALSE, errorText |-> "",
                    hsUrl |-> serverConfig.hsUrl,
                    isUrl |-> serverConfig.isUrl]
    /\ hsTimeoutId = 0
    /\ isTimeoutId = 0
    /\ timeouts = {}
    /\ inflight = << >>
    /\ attempt = NoAttempt
    /\ latest = [status |-> "none", result |-> NoConfig, message |-> ""]
    /\ delivered = NoConfig
    /\ changedSinceBlur = FALSE

\* ----------------------------------------------------------------- actions
\* lines 67-72
componentWillReceiveProps(newProps) ==
    /\ changedSinceBlur' = FALSE
    /\ UNCHANGED <<hsTimeoutId, isTimeoutId, timeouts>>
    /\ IF SameAsEditState(newProps)
       THEN /\ UNCHANGED <<state, inflight, latest, delivered>>
            /\ attempt' = NoAttempt
       ELSE ValidateAndApplyServer(newProps.serverConfig.hsUrl,
                                   newProps.serverConfig.isUrl,
                                   "componentWillReceiveProps", FALSE)

\* Mutant of onHomeserverChange: typing also clears the error shown.
onHomeserverChangeClearsError(value) ==
    /\ changedSinceBlur' = (timeouts # {})
    /\ state' = SetState(state, [hsUrl |-> value, errorText |-> ""])
    /\ attempt' = NoAttempt
    /\ UNCHANGED <<hsTimeoutId, isTimeoutId, timeouts, inflight, latest, delivered>>

\* lines 123-126
onHomeserverChange(value) ==
    /\ changedSinceBlur' = (timeouts # {})
    /\ state' = SetState(state, [hsUrl |-> value])
    /\ attempt' = NoAttempt
    /\ UNCHANGED <<hsTimeoutId, isTimeoutId, timeouts, inflight, latest, delivered>>

\* lines 134-137
onIdentityServerChange(value) ==
    /\ changedSinceBlur' = (timeouts # {})
    /\ state' = SetState(state, [isUrl |-> value])
    /\ attempt' = NoAttempt
    /\ UNCHANGED <<hsTimeoutId, isTimeoutId, timeouts, inflight, latest, delivered>>

\* lines 117-121
onHomeserverBlur ==
    /\ changedSinceBlur' = FALSE
    /\ WaitThenInvoke(hsTimeoutId)
    /\ hsTimeoutId' = NewTimeoutId
    /\ attempt' = NoAttempt
    /\ UNCHANGED <<state, isTimeoutId, inflight, latest, delivered>>

\* Mutant of onIdentityServerBlur: the homeserver's handle is passed to
\* _waitThenInvoke.
onIdentityServerBlurHsHandle ==
    /\ changedSinceBlur' = FALSE
    /\ WaitThenInvoke(hsTimeoutId)
    /\ isTimeoutId' = NewTimeoutId
    /\ attempt' = NoAttempt
    /\ UNCHANGED <<state, hsTimeoutId, inflight, latest, delivered>>

\* lines 128-132
onIdentityServerBlur ==
    /\ changedSinceBlur' = FALSE
    /\ WaitThenInvoke(isTimeoutId)
    /\ isTimeoutId' = NewTimeoutId
    /\ attempt' = NoAttempt
    /\ UNCHANGED <<state, hsTimeoutId, inflight, latest, delivered>>

\* lines 119 and 130: the callback of pending timer id runs
TimerFires(id) ==
    /\ changedSinceBlur' = changedSinceBlur
    /\ id \in timeouts
    /\ timeouts' = timeouts \ {id}
    /\ ValidateServer("timer", FALSE)
    /\ UNCHANGED <<hsTimeoutId, isTimeoutId>>

\* Mutant of onSubmit: submitting cancels the pending debounce timers.
onSubmitClearsTimers(onAfterSubmit) ==
    /\ changedSinceBlur' = FALSE
    /\ ValidateServer("onSubmit", onAfterSubmit)
    /\ timeouts' = {}
    /\ UNCHANGED <<hsTimeoutId, isTimeoutId>>

\* lines 139-148
onSubmit(onAfterSubmit) ==
    /\ changedSinceBlur' = FALSE
    /\ ValidateServer("onSubmit", onAfterSubmit)
    /\ UNCHANGED <<hsTimeoutId, isTimeoutId, timeouts>>

\* The attempt of in-flight call i once it has ended with `status`.
Ended(i, status, result, calls) ==
    [hsUrl |-> inflight[i].hsUrl, isUrl |-> inflight[i].isUrl,
     by |-> IF inflight[i].submit THEN "onSubmit" ELSE "unawaited",
     status |-> status, result |-> result,
     message |-> IF status = "rejected" THEN state'.errorText ELSE "",
     calls |-> calls]

\* In-flight call i belongs to the most recently triggered attempt.
IsLatest(i) == i = Len(inflight) /\ latest.status = "pending"

\* lines 98-101: in-flight call i resolves
DiscoveryResolves(i, onAfterSubmit) ==
    /\ changedSinceBlur' = FALSE
    /\ i \in DOMAIN inflight
    /\ inflight' = Remove(inflight, i)
    /\ LET result == DiscoveryResult(inflight[i].hsUrl, inflight[i].isUrl)
           a == Ended(i, "resolved", result,
                      ResolvedCalls(result, inflight[i].submit, onAfterSubmit))
       IN  /\ state' = ResolvedState(state)
           /\ delivered' = result
           /\ attempt' = a
           /\ latest' = IF IsLatest(i) THEN Outcome(a) ELSE latest
    /\ UNCHANGED <<hsTimeoutId, isTimeoutId, timeouts>>

\* lines 102-114: in-flight call i rejects with an error e
DiscoveryRejects(i, translatedMessage, onAfterSubmit) ==
    /\ changedSinceBlur' = FALSE
    /\ i \in DOMAIN inflight
    /\ inflight' = Remove(inflight, i)
    /\ LET a == Ended(i, "rejected", Null,
                      RejectedCalls(inflight[i].submit, onAfterSubmit))
       IN  /\ state' = RejectedState(state, translatedMessage)
           /\ delivered' = delivered
           /\ attempt' = a
           /\ latest' = IF IsLatest(i) THEN Outcome(a) ELSE latest
    /\ UNCHANGED <<hsTimeoutId, isTimeoutId, timeouts>>

\* Whether the owner has provided onAfterSubmit when in-flight call i ends; only
\* onSubmit reads it.
Provided(i) == IF inflight[i].submit THEN BOOLEAN ELSE {FALSE}

Next ==
    \/ \E c \in OwnerConfigs : componentWillReceiveProps([serverConfig |-> c])
    \/ \E v \in Urls : onHomeserverChange(v)
    \/ \E v \in Urls : onIdentityServerChange(v)
    \/ onHomeserverBlur
    \/ onIdentityServerBlur
    \/ \E id \in timeouts : TimerFires(id)
    \/ \E f \in BOOLEAN : onSubmit(f)
    \/ \E i \in DOMAIN inflight : \E f \in Provided(i) : DiscoveryResolves(i, f)
    \/ \E i \in DOMAIN inflight, m \in TranslatedMessages :
           \E f \in Provided(i) : DiscoveryRejects(i, m, f)

Spec == Init /\ [][Next]_vars

\* line 98: the collaborator settles the promise of in-flight call i
DiscoverySettles(i) ==
    \/ \E f \in BOOLEAN : DiscoveryResolves(i, f)
    \/ \E m \in TranslatedMessages, f \in BOOLEAN : DiscoveryRejects(i, m, f)

\* The component with a collaborator that settles every call: the oldest call
\* in flight is settled eventually, and so each call in its turn.
FairSpec == Spec /\ WF_vars(DiscoverySettles(1))

\* ------------------------------------------------------------------ claims
\* The number of invocations of callback fn among calls.
CountCalls(calls, fn) == Cardinality({k \in DOMAIN calls : calls[k].fn = fn})

\* The most recently triggered attempt has ended and no discovery call is left.
AllEnded == inflight = << >> /\ latest.status \in {"default", "resolved", "rejected"}

\* C1: once every overlapping attempt has ended, what the user sees (busy,
\* errorText, the config the owner was last given) is the outcome of the most
\* recently triggered attempt, whatever the order in which the calls ended.
C1_LatestAttemptWins ==
    AllEnded =>
        /\ state.busy = FALSE
        /\ state.errorText = latest.message
        /\ (latest.status # "rejected" => delivered = latest.result)

\* C2: an attempt for DefaultConfig's URLs ends in the task that starts it,
\* with no discovery call: busy is false, errorText empty, the owner has been
\* given DefaultConfig itself, and DefaultConfig is returned.
C2_FastPath ==
    /\ (/\ attempt.status # "none"
        /\ attempt.hsUrl = DefaultConfig.hsUrl
        /\ attempt.isUrl = DefaultConfig.isUrl)
       => /\ attempt.status = "default"
          /\ attempt.result = DefaultConfig
          /\ Len(attempt.calls) >= 1
          /\ attempt.calls[1] = [fn |-> "onServerConfigChange", arg |-> DefaultConfig]
          /\ delivered = DefaultConfig
          /\ state.busy = FALSE
          /\ state.errorText = ""
    /\ \A i \in DOMAIN inflight :
           ~(/\ inflight[i].hsUrl = DefaultConfig.hsUrl
             /\ inflight[i].isUrl = DefaultConfig.isUrl)

\* C2 witness: a submit of the default URLs ended at once, while an earlier
\* discovery call was still in flight.
C2_Witness ==
    /\ attempt.status = "default"
    /\ attempt.by = "onSubmit"
    /\ inflight # << >>
    /\ state.busy = FALSE

\* C3: onServerConfigChange is invoked exactly once, with the attempt's
\* config, for an attempt that succeeds (default path or resolved call) and
\* not at all for one that is pending or whose call rejected.
C3_OneConfigChangePerSuccess ==
    attempt.status # "none" =>
        IF attempt.status \in {"default", "resolved"}
        THEN /\ CountCalls(attempt.calls, "onServerConfigChange") = 1
             /\ attempt.calls[1] = [fn |-> "onServerConfigChange", arg |-> attempt.result]
             /\ delivered = attempt.result
        ELSE CountCalls(attempt.calls, "onServerConfigChange") = 0

\* C3 witness: a discovery call resolved and the owner was given its result.
C3_Witness ==
    /\ attempt.status = "resolved"
    /\ attempt.result = DiscoveryResult(attempt.hsUrl, attempt.isUrl)
    /\ delivered = attempt.result

\* C4: when the discovery call of an attempt rejects, busy becomes false,
\* errorText the error's translatedMessage if it has a non-empty one and the
\* generic message otherwise, the routine returns null (it does not throw), and
\* onServerConfigChange is not invoked.
C4_FailureOutcome ==
    [][attempt'.status = "rejected" =>
           \A i \in DOMAIN inflight, m \in TranslatedMessages :
               \A f \in Provided(i) :
                   DiscoveryRejects(i, m, f) =>
                       /\ state'.busy = FALSE
                       /\ state'.errorText =
                              IF m \in {Undefined, ""} THEN GenericMessage ELSE m
                       /\ attempt'.result = Null
                       /\ CountCalls(attempt'.calls, "onServerConfigChange") = 0
                       /\ delivered' = delivered]_vars

\* C4 witness: a call rejected with a translated message, which is shown.
C4_Witness ==
    /\ attempt.status = "rejected"
    /\ attempt.result = Null
    /\ state.errorText = "Bad server"
    /\ state.busy = FALSE

\* C5: onSubmit validates the current EditState and awaits the result; when
\* the result is null onAfterSubmit is not invoked for that submit, otherwise
\* it is invoked exactly once if the owner provided it.
C5_Submit ==
    [][(attempt' # NoAttempt /\ attempt'.by = "onSubmit") =>
           /\ \A f \in BOOLEAN :
                  onSubmit(f) =>
                      /\ attempt'.hsUrl = state.hsUrl
                      /\ attempt'.isUrl = state.isUrl
                      /\ IF attempt'.status = "default"
                         THEN CountCalls(attempt'.calls, "onAfterSubmit")
                                  = IF f THEN 1 ELSE 0
                         ELSE attempt'.status = "pending" /\ attempt'.calls = << >>
           /\ \A i \in DOMAIN inflight, f \in BOOLEAN :
                  DiscoveryResolves(i, f) =>
                      /\ attempt'.result # Null
                      /\ CountCalls(attempt'.calls, "onAfterSubmit")
                             = IF f THEN 1 ELSE 0
           /\ \A i \in DOMAIN inflight, m \in TranslatedMessages, f \in BOOLEAN :
                  DiscoveryRejects(i, m, f) =>
                      /\ attempt'.result = Null
                      /\ CountCalls(attempt'.calls, "onAfterSubmit") = 0]_vars

\* C5 witness: the call of a submit resolved and onAfterSubmit was invoked once.
C5_Witness ==
    /\ attempt.status = "resolved"
    /\ attempt.by = "onSubmit"
    /\ CountCalls(attempt.calls, "onAfterSubmit") = 1

\* C6: a blur on a field whose timer is pending cancels that timer and puts
\* one new timer in its place, starting no attempt itself; so a field never has
\* two pending timers, and each timer that fires starts exactly one attempt,
\* with one discovery call when the EditState is not the default.
C6_Debounce ==
    [][/\ (hsTimeoutId \in timeouts /\ onHomeserverBlur) =>
              /\ hsTimeoutId \notin timeouts'
              /\ hsTimeoutId' \notin timeouts
              /\ timeouts' = (timeouts \ {hsTimeoutId}) \cup {hsTimeoutId'}
              /\ inflight' = inflight
              /\ attempt' = NoAttempt
       /\ (isTimeoutId \in timeouts /\ onIdentityServerBlur) =>
              /\ isTimeoutId \notin timeouts'
              /\ isTimeoutId' \notin timeouts
              /\ timeouts' = (timeouts \ {isTimeoutId}) \cup {isTimeoutId'}
              /\ inflight' = inflight
              /\ attempt' = NoAttempt
       /\ timeouts' \subseteq {hsTimeoutId', isTimeoutId'}
       /\ \A id \in timeouts :
              (id \notin timeouts' /\ TimerFires(id)) =>
                  /\ timeouts' = timeouts \ {id}
                  /\ attempt'.by = "timer"
                  /\ Len(inflight') =
                         IF state.hsUrl = DefaultConfig.hsUrl /\ state.isUrl = DefaultConfig.isUrl
                         THEN Len(inflight)
                         ELSE Len(inflight) + 1]_vars

\* C6 witness: the homeserver field was blurred twice before any timer fired:
\* the first timer (id 1) is gone, the second is the only one pending, and no
\* attempt has been made.
C6_Witness ==
    /\ hsTimeoutId = 2
    /\ isTimeoutId = 0
    /\ timeouts = {2}
    /\ latest.status = "none"

\* C7: busy implies that errorText is empty.
C7_BusyImpliesNoError == state.busy => state.errorText = ""

\* C7 witness: busy, with a second attempt begun while the first call is in
\* flight.
C7_Witness ==
    /\ state.busy
    /\ attempt.status = "pending"
    /\ Len(inflight) = 2

\* C8: a new props.serverConfig that differs from the EditState is adopted
\* into the EditState and validated at once.
C8_AdoptsNewConfig ==
    (attempt.status # "none" /\ attempt.by = "componentWillReceiveProps") =>
        /\ state.hsUrl = attempt.hsUrl
        /\ state.isUrl = attempt.isUrl

\* C9: a new props.serverConfig whose URLs both equal the EditState changes
\* nothing: not the EditState, busy, errorText or the timers; no attempt is
\* started, no discovery call made, no callback invoked.
C9_SameConfigIsNoOp ==
    [][\A c \in OwnerConfigs :
           (/\ c.hsUrl = state.hsUrl
            /\ c.isUrl = state.isUrl
            /\ componentWillReceiveProps([serverConfig |-> c])) =>
               /\ UNCHANGED <<state, hsTimeoutId, isTimeoutId, timeouts, inflight,
                              latest, delivered>>
               /\ attempt' = NoAttempt]_vars

\* C9 witness: the last task started or ended nothing while the component was
\* busy with a call in flight and a timer pending.
C9_Witness ==
    /\ attempt = NoAttempt
    /\ state.busy
    /\ Len(inflight) = 1
    /\ timeouts # {}
    /\ latest.status = "pending"
    /\ inflight[1].hsUrl = state.hsUrl
    /\ inflight[1].isUrl = state.isUrl

\* C10: a change of a field sets that field of the EditState to the value
\* typed and nothing else: the other field, busy, errorText and the timers stay,
\* no attempt is started, no discovery call made, no callback invoked.
C10_FieldChangeFrame ==
    [][/\ \A v \in Urls :
              onHomeserverChange(v) =>
                  /\ state' = [state EXCEPT !.hsUrl = v]
                  /\ attempt' = NoAttempt
                  /\ UNCHANGED <<hsTimeoutId, isTimeoutId, timeouts, inflight,
                                 latest, delivered>>
       /\ \A v \in Urls :
              onIdentityServerChange(v) =>
                  /\ state' = [state EXCEPT !.isUrl = v]
                  /\ attempt' = NoAttempt
                  /\ UNCHANGED <<hsTimeoutId, isTimeoutId, timeouts, inflight,
                                 latest, delivered>>]_vars

\* C10 witness: the homeserver field was edited while the most recently
\* triggered attempt was in flight: busy is still set and the call keeps the
\* URL it was made with.
C10_Witness ==
    /\ latest.status = "pending"
    /\ state.busy
    /\ state.errorText = ""
    /\ inflight # << >>
    /\ inflight[Len(inflight)].hsUrl # state.hsUrl

\* C11: with a collaborator that settles every call, busy never stays true:
\* whenever no discovery call is in flight busy is false, and whenever busy is
\* true it becomes false again, also after a failure or overlapping attempts.
C11_Recovery ==
    /\ [](inflight = << >> => state.busy = FALSE)
    /\ (state.busy = TRUE ~> state.busy = FALSE)

\* C11 witness: two attempts overlapped, the last call to end rejected, and
\* the component is idle again with the error shown.
C11_Witness ==
    /\ attempt.status = "rejected"
    /\ latest.status \in {"resolved", "rejected"}
    /\ Outcome(attempt) # latest
    /\ inflight = << >>
    /\ state.busy = FALSE
    /\ state.errorText # ""

\* C12: an attempt for URLs other than DefaultConfig's sets busy, empties
\* errorText and calls the discovery collaborator once, with its own URLs; no
\* other task issues a call, so none is repeated and a rejection is not retried.
C12_SlowPathOneCall ==
    [][/\ (/\ attempt'.status \in {"default", "pending"}
           /\ ~(/\ attempt'.hsUrl = DefaultConfig.hsUrl
                /\ attempt'.isUrl = DefaultConfig.isUrl)) =>
              /\ attempt'.status = "pending"
              /\ state'.busy = TRUE
              /\ state'.errorText = ""
              /\ inflight' = Append(inflight,
                                    [hsUrl |-> attempt'.hsUrl,
                                     isUrl |-> attempt'.isUrl,
                                     submit |-> (attempt'.by = "onSubmit")])
       /\ attempt'.status = "pending" =>
              \A c \in OwnerConfigs :
                  componentWillReceiveProps([serverConfig |-> c]) =>
                      /\ attempt'.hsUrl = c.hsUrl
                      /\ attempt'.isUrl = c.isUrl
       /\ attempt'.status # "pending" => Len(inflight') <= Len(inflight)
       /\ attempt'.status = "rejected" => Len(inflight') = Len(inflight) - 1]_vars

\* C12 witness: a timer fired on an EditState that is not the default: busy is
\* set and the one call in flight has the attempt's URLs.
C12_Witness ==
    /\ attempt.status = "pending"
    /\ attempt.by = "timer"
    /\ state.busy
    /\ state.errorText = ""
    /\ Len(inflight) = 1
    /\ inflight[1].hsUrl = attempt.hsUrl
    /\ inflight[1].isUrl = attempt.isUrl

\* C13: every invocation of onAfterSubmit belongs to a submit and comes after
\* the invocation, for that same submit, of onServerConfigChange with the
\* config the validation returned.
C13_ConfigChangeBeforeAfterSubmit ==
    attempt.status # "none" =>
        \A k \in DOMAIN attempt.calls :
            attempt.calls[k].fn = "onAfterSubmit" =>
                /\ attempt.by = "onSubmit"
                /\ attempt.result \notin {Null, Pending}
                /\ \E j \in 1..(k - 1) :
                       attempt.calls[j] =
                           [fn |-> "onServerConfigChange", arg |-> attempt.result]

\* C13 witness: the call of a submit resolved while another call was in
\* flight; the owner got the config, then onAfterSubmit.
C13_Witness ==
    /\ attempt.status = "resolved"
    /\ attempt.by = "onSubmit"
    /\ Len(attempt.calls) = 2
    /\ attempt.calls[1].fn = "onServerConfigChange"
    /\ attempt.calls[2].fn = "onAfterSubmit"
    /\ inflight # << >>

\* What a call of the validation routine returns, shows and gives the owner is
\* a function of its inputs and of the collaborator's answer alone, whatever
\* the state it is made in: two calls in a row with the same inputs and the same
\* answer agree.
SameOutcome ==
    /\ attempt'.status = "default" =>
           /\ attempt'.result = DefaultConfig
           /\ state'.busy = FALSE
           /\ state'.errorText = ""
           /\ delivered' = DefaultConfig
    /\ attempt'.status = "resolved" =>
           \A i \in DOMAIN inflight :
               \A f \in Provided(i) :
                   DiscoveryResolves(i, f) =>
                       /\ attempt'.result =
                              [hsUrl |-> inflight[i].hsUrl,
                               isUrl |-> inflight[i].isUrl,
                               from |-> "AutoDiscovery"]
                       /\ state'.busy = FALSE
                       /\ state'.errorText = ""
                       /\ delivered' = attempt'.result
    /\ attempt'.status = "rejected" =>
           \A i \in DOMAIN inflight, m \in TranslatedMessages :
               \A f \in Provided(i) :
                   DiscoveryRejects(i, m, f) =>
                       /\ attempt'.result = Null
                       /\ state'.busy = FALSE
                       /\ state'.errorText =
                              IF m \in {Undefined, ""} THEN GenericMessage ELSE m
                       /\ CountCalls(attempt'.calls, "onServerConfigChange") = 0

\* C14 as stated: two calls in a row with the same inputs agree, and each call
\* sets busy=true when it is made and resolves it back to false when it ends.
C14_EveryCallSetsBusy ==
    [][/\ SameOutcome
       /\ attempt'.status \in {"default", "pending"} =>
              /\ attempt'.status = "pending"
              /\ state'.busy = TRUE]_vars

\* C14 as amended: two calls in a row with the same inputs agree; each call for
\* URLs other than DefaultConfig's sets busy=true when it is made and resolves
\* it back to false when it ends, while a call for DefaultConfig's URLs returns
\* at once and sets busy to false without ever setting it to true.
C14_Idempotence ==
    [][/\ SameOutcome
       /\ attempt'.status \in {"default", "pending"} =>
              IF /\ attempt'.hsUrl = DefaultConfig.hsUrl
                 /\ attempt'.isUrl = DefaultConfig.isUrl
              THEN attempt'.status = "default" /\ state'.busy = FALSE
              ELSE attempt'.status = "pending" /\ state'.busy = TRUE]_vars

\* C14 witness: the most recently triggered call has resolved with no other
\* call outstanding: busy is false again and the owner has the result for the
\* URLs the EditState still holds.
C14_Witness ==
    /\ attempt.status = "resolved"
    /\ latest = Outcome(attempt)
    /\ inflight = << >>
    /\ state.busy = FALSE
    /\ delivered = DiscoveryResult(state.hsUrl, state.isUrl)

\* C15: the outcome of a discovery call is applied only if the URLs the call
\* was issued for are still those of the EditState when it settles; otherwise
\* the state is not written and the owner is not given the result.
C15_StaleResultGuard ==
    [][(/\ attempt'.status \in {"resolved", "rejected"}
        /\ (attempt'.hsUrl # state.hsUrl \/ attempt'.isUrl # state.isUrl)) =>
           /\ state' = state
           /\ delivered' = delivered
           /\ CountCalls(attempt'.calls, "onServerConfigChange") = 0]_vars

\* C16: the attempt a debounce timer starts is made with the EditState as it
\* is when the timer fires: those URLs are compared with DefaultConfig's and
\* passed to the discovery collaborator, whatever they were at the blur.
C16_TimerReadsCurrentEditState ==
    [][(attempt'.status # "none" /\ attempt'.by = "timer") =>
           \A id \in timeouts :
               TimerFires(id) =>
                   /\ attempt'.hsUrl = state.hsUrl
                   /\ attempt'.isUrl = state.isUrl
                   /\ IF /\ state.hsUrl = DefaultConfig.hsUrl
                         /\ state.isUrl = DefaultConfig.isUrl
                      THEN attempt'.status = "default" /\ inflight' = inflight
                      ELSE /\ attempt'.status = "pending"
                           /\ Len(inflight') = Len(inflight) + 1
                           /\ inflight'[Len(inflight')].hsUrl = state.hsUrl
                           /\ inflight'[Len(inflight')].isUrl = state.isUrl]_vars

\* C16 witness: a field was changed while the timer was pending, then the
\* timer fired and a discovery call was made.
C16_Witness ==
    /\ changedSinceBlur
    /\ attempt.status = "pending"
    /\ attempt.by = "timer"
    /\ inflight[Len(inflight)].hsUrl = state.hsUrl
    /\ inflight[Len(inflight)].isUrl = state.isUrl

\* C17: a blur on one field replaces that field's pending timer only: the
\* other field's handle and pending timer stay; two timers pending after a blur
\* on each field both fire, one at a time, and each starts its own attempt.
C17_TimersIndependent ==
    [][timeouts' # timeouts =>
           /\ onHomeserverBlur =>
                  /\ isTimeoutId' = isTimeoutId
                  /\ hsTimeoutId' # isTimeoutId
                  /\ timeouts' \ {hsTimeoutId'} = timeouts \ {hsTimeoutId}
                  /\ (isTimeoutId \in timeouts => isTimeoutId \in timeouts')
           /\ onIdentityServerBlur =>
                  /\ hsTimeoutId' = hsTimeoutId
                  /\ isTimeoutId' # hsTimeoutId
                  /\ timeouts' \ {isTimeoutId'} = timeouts \ {isTimeoutId}
                  /\ (hsTimeoutId \in timeouts => hsTimeoutId \in timeouts')
           /\ \A id \in timeouts :
                  TimerFires(id) =>
                      /\ timeouts' = timeouts \ {id}
                      /\ attempt'.by = "timer"
                      /\ attempt'.status \in {"default", "pending"}]_vars

\* C17 witness: a homeserver blur, then an identity-server blur: both timers
\* are pending and nothing has been validated yet.
C17_Witness ==
    /\ hsTimeoutId = 1
    /\ isTimeoutId = 2
    /\ timeouts = {1, 2}
    /\ latest.status = "none"

\* C18: while a discovery call is in flight busy is true, also when attempts
\* overlap or an attempt takes the default path meanwhile.
C18_BusyCoversInFlight == inflight # << >> => state.busy = TRUE

\* C19: onSubmit starts its attempt in the task of the event itself and leaves
\* the timers and both handles as they are; a timer pending then fires later
\* and starts an attempt of its own.
C19_SubmitLeavesTimers ==
    [][/\ (attempt'.status # "none" /\ attempt'.by = "onSubmit") =>
              \A f \in BOOLEAN :
                  onSubmit(f) =>
                      /\ attempt'.status \in {"default", "pending"}
                      /\ UNCHANGED <<timeouts, hsTimeoutId, isTimeoutId>>
       /\ (attempt'.status # "none" /\ attempt'.by = "timer") =>
              \A id \in timeouts :
                  TimerFires(id) =>
                      /\ attempt'.status \in {"default", "pending"}
                      /\ attempt'.hsUrl = state.hsUrl
                      /\ attempt'.isUrl = state.isUrl]_vars

\* C19 witness: a submit has started a discovery call and the homeserver
\* field's timer is still pending.
C19_Witness ==
    /\ attempt.status = "pending"
    /\ attempt.by = "onSubmit"
    /\ hsTimeoutId \in timeouts
    /\ Len(inflight) = 1

====
